---- MODULE Spec2Model ----
(***************************************************************************)
(* Model of main.py: the incremental audit of Tableau workbooks for the    *)
(* Snowflake QUERY_TAG initial-SQL rule.  One run of main() is a sequence  *)
(* of steps, one per external interaction (catalog call, file system       *)
(* operation); the catalog, the clock and the checkpoint file on disk are  *)
(* the environment the runs share.                                         *)
(*                                                                         *)
(* A Python str is a sequence of one-character strings.  A timestamp is a  *)
(* number of seconds; the clock counts ticks of 1/TicksPerSec second.      *)
(***************************************************************************)
EXTENDS Integers, Sequences, FiniteSets, TLC

(* ------------------------------ bounds --------------------------------- *)
NumWorkbooks == 2
MaxClock == 4
MaxRuns == 2
MaxConns == 2
MaxDatasources == 2
MaxPad == 1
TicksPerSec == 2

Workbooks == 1..NumWorkbooks

(* ------------------------ Python str operations ------------------------ *)
LowerCase == <<"a", "b", "c", "d", "e", "f", "g", "h", "i", "j", "k", "l", "m", "n", "o", "p", "q", "r", "s", "t", "u", "v", "w", "x", "y", "z">>
UpperCase == <<"A", "B", "C", "D", "E", "F", "G", "H", "I", "J", "K", "L", "M", "N", "O", "P", "Q", "R", "S", "T", "U", "V", "W", "X", "Y", "Z">>

\* the characters str.strip() removes
Whitespace == {" ", "\t", "\n", "\r"}

upper_char(c) ==
  IF \E n \in 1..Len(LowerCase) : LowerCase[n] = c
  THEN UpperCase[CHOOSE n \in 1..Len(LowerCase) : LowerCase[n] = c]
  ELSE c

lower_char(c) ==
  IF \E n \in 1..Len(UpperCase) : UpperCase[n] = c
  THEN LowerCase[CHOOSE n \in 1..Len(UpperCase) : UpperCase[n] = c]
  ELSE c

\* str.upper()
upper(s) == [n \in 1..Len(s) |-> upper_char(s[n])]

\* str.lower()
lower(s) == [n \in 1..Len(s) |-> lower_char(s[n])]

RECURSIVE lstrip(_)
lstrip(s) ==
  IF s = <<>> THEN s
  ELSE IF s[1] \in Whitespace THEN lstrip(Tail(s)) ELSE s

RECURSIVE rstrip(_)
rstrip(s) ==
  IF s = <<>> THEN s
  ELSE IF s[Len(s)] \in Whitespace THEN rstrip(SubSeq(s, 1, Len(s) - 1)) ELSE s

\* a mutation of strip: only trailing whitespace is removed
strip_trailing_only(s) == rstrip(s)

\* str.strip()
strip(s) == rstrip(lstrip(s))

\* str.startswith(prefix)
startswith(s, prefix) ==
  /\ Len(s) >= Len(prefix)
  /\ SubSeq(s, 1, Len(prefix)) = prefix

(* ------------------------ compliance predicate ------------------------- *)
query_tag_text == <<"A", "L", "T", "E", "R", " ", "S", "E", "S", "S", "I", "O", "N", " ", "S", "E", "T", " ", "Q", "U", "E", "R", "Y", "_", "T", "A", "G">>

\* an initial_sql attribute: None (no one-time-sql in the file) or a str
None == [isNone |-> TRUE, text |-> <<>>]
Str(s) == [isNone |-> FALSE, text |-> s]

\* the outcome of a call: a returned value, or the exception it raised
NoError == "none"
Return(v) == [raised |-> NoError, value |-> v]
Raise(e) == [raised |-> e, value |-> FALSE]

\* init_sql.upper() on None raises AttributeError
init_sql_has_query_tag(init_sql) ==
  IF init_sql.isNone
  THEN Raise("AttributeError")
  ELSE Return(startswith(strip(upper(init_sql.text)), query_tag_text))

(* --------------------------- bounded inputs ---------------------------- *)
SeqsUpTo(S, n) == UNION {[1..m -> S] : m \in 0..n}

select_1 == <<"S", "E", "L", "E", "C", "T", " ", "1">>
padded_lower_tag == <<" ", "a", "l", "t", "e", "r", " ", "s", "e", "s", "s", "i", "o", "n", " ", "s", "e", "t", " ", "q", "u", "e", "r", "y", "_", "t", "a", "g", " ", "=", " ", "'", "x", "'", "\n">>

\* the initial_sql values of the connections found in downloaded files
SqlSamples == {None, Str(<<>>), Str(select_1), Str(padded_lower_tag)}

\* file-derived connection records (tableaudocumentapi Connection)
FileConnections ==
  {[dbclass |-> "snowflake", initial_sql |-> q] : q \in SqlSamples}
    \cup {[dbclass |-> "postgres", initial_sql |-> None]}

RECURSIVE Sum(_)
Sum(sizes) == IF sizes = <<>> THEN 0 ELSE Head(sizes) + Sum(Tail(sizes))

\* the sequence of connections cut into datasources of the given sizes
RECURSIVE Cut(_, _)
Cut(connections, sizes) ==
  IF sizes = <<>> THEN <<>>
  ELSE <<SubSeq(connections, 1, Head(sizes))>>
         \o Cut(SubSeq(connections, Head(sizes) + 1, Len(connections)), Tail(sizes))

\* what the parser can yield for a workbook package: its datasources, each
\* a sequence of connections
WorkbookPackages ==
  {Cut(x[1], x[2]) :
     x \in {y \in SeqsUpTo(FileConnections, MaxConns)
                     \X SeqsUpTo(0..MaxConns, MaxDatasources) :
               Sum(y[2]) = Len(y[1])}}

\* Datasource.from_file yields exactly one datasource
DatasourcePackages == {p \in WorkbookPackages : Len(p) = 1}

\* the extensions of the files the download yields: a workbook package, a
\* datasource package, and a file of neither kind
Extensions == {".twbx", ".tdsx", ".zip"}

\* live-catalog connection lists (populate_connections): connection_type only
LiveConnections == SeqsUpTo({"snowflake", "postgres"}, MaxConns)

TABLEAU_TAG == "TABLEAU_TAG"

\* the utc offsets of the runner's local clock, in seconds
Offsets == {-1, 0, 1}

(* ------------------------------- state --------------------------------- *)
VARIABLES
  pc,                      \* position of the run in main()
  error,                   \* the step whose exception ended the run
  run,                     \* number of the current invocation
  clock,                   \* UTC time, in ticks
  tzOffset,                \* local time minus UTC, in seconds
  catalog,                 \* server side: workbook -> size, updatedAt, tags
  file,                    \* workbook_config.json on disk
  content,                 \* the files in the content folder
  req_opts,                \* the filters built by get_workbooks_from_config
  workbooks_to_check,      \* the items the Pager yields
  wb_index,                \* position of the pre-filter loop
  wb_connections,          \* wb.connections of the item of the pre-filter loop
  wbs_with_sf_connections,
  i,                       \* position of the loop of main
  resource_filename,
  snowflake_connections,
  query_tag_count,
  config,                  \* the dict held by the checkpoint update
  events,                  \* the external operations of this run, in order
  file_at_load,            \* the checkpoint file as this run loaded it
  init_sql,                \* the argument of a call of the predicate alone
  predicate_result,        \* the outcome of that call
  call_datasources,        \* the parsed package of a call of the classification alone
  call_dbclass,            \* the target class of that call
  modified,                \* the workbooks modified since the last listing request
  previous_completed       \* the previous invocation ran to its end

env == <<clock, tzOffset, catalog>>
disk == <<file, content>>
prefilter == <<req_opts, workbooks_to_check, wb_index, wb_connections, wbs_with_sf_connections>>
loop == <<i, resource_filename, snowflake_connections, query_tag_count>>
call == <<init_sql, predicate_result, call_datasources, call_dbclass>>
history == <<modified, previous_completed>>
vars == <<pc, error, run, env, disk, prefilter, loop, config, events, file_at_load, call, history>>

NoFile == [id |-> 0, ext |-> ""]
NoConfig == [content_size |-> 0, date_checkpoint |-> 0, note |-> ""]
NoOpts == [size |-> 0, updatedAt |-> 0]
Missing == [kind |-> "missing", indent |-> 0, obj |-> NoConfig]
Empty == [kind |-> "empty", indent |-> 0, obj |-> NoConfig]

Event(op, wb) == [op |-> op, wb |-> wb]

(* --------------------------- checkpoint file --------------------------- *)
\* json.load(f): the dict of a complete JSON file, whatever its layout
json_load(f) == f.obj

\* json.dump(config, f, indent=4)
json_dump(obj, indent) == [kind |-> "json", indent |-> indent, obj |-> obj]

\* datetime.datetime.now(): the naive local time, in ticks
datetime_now == clock + tzOffset * TicksPerSec

\* now.strftime("%Y-%m-%dT%H:%M:%SZ"): second precision, a literal Z
strftime(now) == now \div TicksPerSec

size_to_bytes(size) == size * 1024 * 1024

\* the server's evaluation of the two filters of the listing request
Matches(w, opts) ==
  /\ catalog[w].size <= opts.size
  /\ catalog[w].updatedAt >= opts.updatedAt

RECURSIVE Listing(_, _)
Listing(w, opts) ==
  IF w > NumWorkbooks THEN <<>>
  ELSE (IF Matches(w, opts) THEN <<w>> ELSE <<>>) \o Listing(w + 1, opts)

(* -------------------------------- Init --------------------------------- *)
SeedFiles ==
  {Missing, Empty}
    \cup {json_dump([content_size |-> 1, date_checkpoint |-> d, note |-> "owner"], 0) :
            d \in 0..1}

Init ==
  /\ pc = "start"
  /\ error = NoError
  /\ run = 1
  /\ clock = TicksPerSec
  /\ tzOffset \in Offsets
  /\ catalog \in [Workbooks -> [size : {size_to_bytes(1), size_to_bytes(1) + 1},
                                updatedAt : {0},
                                tags : {{}}]]
  /\ file \in SeedFiles
  /\ content = {}
  /\ req_opts = NoOpts
  /\ workbooks_to_check = <<>>
  /\ wb_index = 1
  /\ wb_connections = <<>>
  /\ wbs_with_sf_connections = <<>>
  /\ i = 1
  /\ resource_filename = NoFile
  /\ snowflake_connections = <<>>
  /\ query_tag_count = 0
  /\ config = NoConfig
  /\ events = <<>>
  /\ file_at_load = file
  /\ init_sql = None
  /\ predicate_result = Return(FALSE)
  /\ call_datasources = <<>>
  /\ call_dbclass = "snowflake"
  /\ modified = {}
  /\ previous_completed = FALSE

(* ------------------------- helpers of the steps ------------------------ *)
Abort(step) == pc' = "aborted" /\ error' = step

Log(op, wb) == events' = Append(events, Event(op, wb))

\* a mutation of the inner loop: the workbook is appended whatever its
\* connections
append_always(connections, wbs, wb) == Append(wbs, wb)

\* a mutation of the inner loop: no break, the workbook is appended at every
\* snowflake connection
RECURSIVE append_each_snowflake(_, _, _)
append_each_snowflake(connections, wbs, wb) ==
  IF connections = <<>> THEN wbs
  ELSE append_each_snowflake(Tail(connections),
         IF Head(connections) = "snowflake" THEN Append(wbs, wb) ELSE wbs, wb)

\* the inner loop of filter_wbs_with_snowflake_connections: the workbook is
\* appended at the first snowflake connection, then the loop breaks
RECURSIVE append_if_snowflake(_, _, _)
append_if_snowflake(connections, wbs, wb) ==
  IF connections = <<>> THEN wbs
  ELSE IF Head(connections) = "snowflake" THEN Append(wbs, wb)
  ELSE append_if_snowflake(Tail(connections), wbs, wb)

IsWorkbookFile(filename) == filename.ext \in {".twb", ".twbx"}
IsDatasourceFile(filename) == filename.ext \in {".tds", ".tdsx"}

\* what the document parser can return for the file
ParserResults(filename) ==
  IF IsWorkbookFile(filename) THEN WorkbookPackages
  ELSE IF IsDatasourceFile(filename) THEN DatasourcePackages
  ELSE {}

FilterClass(connections, dbclass) ==
  SelectSeq(connections, LAMBDA c : c.dbclass = dbclass)

\* a mutation of the loop over the datasources: the last datasource first
RECURSIVE ConnectionsOf_reversed(_, _)
ConnectionsOf_reversed(datasources, dbclass) ==
  IF datasources = <<>> THEN <<>>
  ELSE ConnectionsOf_reversed(Tail(datasources), dbclass)
         \o FilterClass(Head(datasources), dbclass)

RECURSIVE ConnectionsOf(_, _)
ConnectionsOf(datasources, dbclass) ==
  IF datasources = <<>> THEN <<>>
  ELSE FilterClass(Head(datasources), dbclass)
         \o ConnectionsOf(Tail(datasources), dbclass)

\* datasources is what the parser returned for filename
get_connections_for_dbclass(filename, datasources, dbclass) ==
  IF IsWorkbookFile(filename) \/ IsDatasourceFile(filename)
  THEN ConnectionsOf(datasources, dbclass)
  ELSE <<>>

\* the loop of main over snowflake_connections: the count of connections
\* without a query tag, or the exception of the predicate
RECURSIVE count_without_query_tag(_, _)
count_without_query_tag(connections, count) ==
  IF connections = <<>> THEN Return(count)
  ELSE LET has_query_tag == init_sql_has_query_tag(Head(connections).initial_sql)
       IN  IF has_query_tag.raised # NoError THEN Raise(has_query_tag.raised)
           ELSE count_without_query_tag(Tail(connections),
                  IF has_query_tag.value THEN count ELSE count + 1)

\* the test of the for loop of main
exhausted(index, wbs) == index > Len(wbs)

\* a mutation of the test of the count: a workbook without any snowflake
\* connection in its file is tagged as well
needs_tag_always(count) == count >= 0

\* the test of the count of main
needs_tag(count) == count > 0

\* a mutation of the update of the dict: the size is reset as well
set_date_checkpoint_reset(cfg, formatted_date) ==
  [cfg EXCEPT !.date_checkpoint = formatted_date, !.content_size = 0]

set_date_checkpoint(cfg, formatted_date) ==
  [cfg EXCEPT !.date_checkpoint = formatted_date]

Running == pc \notin {"done", "aborted", "killed"}

(* ------------------------------- steps --------------------------------- *)
create_tableau_session ==
  /\ pc = "start"
  /\ Log("sign_in", 0)
  /\ \/ pc' = "signed_in" /\ error' = error
     \/ Abort("sign_in")
  /\ UNCHANGED <<call, history, run, env, disk, prefilter, loop, config, file_at_load>>

get_workbooks_from_config ==
  /\ pc = "signed_in"
  /\ file_at_load' = file
  /\ IF file.kind = "missing"
     THEN Abort("FileNotFoundError") /\ UNCHANGED req_opts
     ELSE IF file.kind = "empty"
     THEN Abort("JSONDecodeError") /\ UNCHANGED req_opts
     ELSE /\ req_opts' = [size |-> size_to_bytes(json_load(file).content_size),
                          updatedAt |-> json_load(file).date_checkpoint]
          /\ pc' = "listing"
          /\ error' = error
  /\ UNCHANGED <<call, history, run, env, disk, workbooks_to_check, wb_index,
                 wb_connections, wbs_with_sf_connections, loop, config, events>>

\* the first iteration of the Pager issues the listing request
list_workbooks ==
  /\ pc = "listing"
  /\ Log("list", 0)
  /\ \/ /\ Abort("list")
        /\ UNCHANGED <<workbooks_to_check, modified>>
     \/ /\ workbooks_to_check' = Listing(1, req_opts)
        /\ modified' = {}
        /\ pc' = IF exhausted(1, workbooks_to_check') THEN "loop" ELSE "filtering"
        /\ error' = error
  /\ UNCHANGED <<call, previous_completed, run, env, disk, req_opts, wb_index,
                 wb_connections, wbs_with_sf_connections, loop, config, file_at_load>>

\* one iteration of the loop of filter_wbs_with_snowflake_connections
populate_connections ==
  /\ pc = "filtering"
  /\ LET wb == workbooks_to_check[wb_index] IN
       /\ Log("populate_connections", wb)
       /\ \/ /\ Abort("populate_connections")
             /\ UNCHANGED <<wb_index, wb_connections, wbs_with_sf_connections>>
          \/ \E connections \in LiveConnections :
               /\ wb_connections' = connections
               /\ wbs_with_sf_connections' =
                    append_if_snowflake(wb_connections', wbs_with_sf_connections, wb)
               /\ wb_index' = wb_index + 1
               /\ pc' = IF exhausted(wb_index', workbooks_to_check)
                        THEN "filtered" ELSE "filtering"
               /\ error' = error
  /\ UNCHANGED <<call, history, run, env, disk, req_opts, workbooks_to_check, loop, config,
                 file_at_load>>

\* the return of filter_wbs_with_snowflake_connections: the items of the
\* Pager, and the connections populated on them, are dead from here on
return_wbs_with_sf_connections ==
  /\ pc = "filtered"
  /\ wb_connections' = <<>>
  /\ pc' = "loop"
  /\ UNCHANGED <<call, history, error, run, env, disk, req_opts, workbooks_to_check,
                 wb_index, wbs_with_sf_connections, loop, config, events, file_at_load>>

\* a mutation of the download: the error is caught and the loop goes on
download_resource_caught ==
  /\ pc = "loop"
  /\ ~exhausted(i, wbs_with_sf_connections)
  /\ LET wb == wbs_with_sf_connections[i] IN
       /\ Log("download", wb)
       /\ \/ /\ error' = "download"
             /\ pc' = "loop"
             /\ i' = i + 1
             /\ UNCHANGED <<resource_filename, content>>
          \/ \E ext \in Extensions :
               /\ resource_filename' = [id |-> wb, ext |-> ext]
               /\ content' = content \cup {resource_filename'}
               /\ pc' = "downloaded"
               /\ UNCHANGED <<error, i>>
  /\ UNCHANGED <<call, history, run, env, file, prefilter, snowflake_connections,
                 query_tag_count, config, file_at_load>>

\* a mutation of the download: on a failure the tags this run applied are
\* taken back
download_resource_rollback ==
  /\ pc = "loop"
  /\ ~exhausted(i, wbs_with_sf_connections)
  /\ LET wb == wbs_with_sf_connections[i] IN
       /\ Log("download", wb)
       /\ \/ /\ Abort("download")
             /\ catalog' = [w \in Workbooks |->
                              IF \E n \in 1..Len(events) : events[n] = Event("update", w)
                              THEN [catalog[w] EXCEPT !.tags = @ \ {TABLEAU_TAG}]
                              ELSE catalog[w]]
             /\ UNCHANGED <<resource_filename, content>>
          \/ \E ext \in Extensions :
               /\ resource_filename' = [id |-> wb, ext |-> ext]
               /\ content' = content \cup {resource_filename'}
               /\ pc' = "downloaded"
               /\ error' = error
               /\ UNCHANGED catalog
  /\ UNCHANGED <<call, history, run, clock, tzOffset, file, prefilter, i,
                 snowflake_connections, query_tag_count, config, file_at_load>>

download_resource ==
  /\ pc = "loop"
  /\ ~exhausted(i, wbs_with_sf_connections)
  /\ LET wb == wbs_with_sf_connections[i] IN
       /\ Log("download", wb)
       /\ \/ /\ Abort("download")
             /\ UNCHANGED <<resource_filename, content>>
          \/ \E ext \in Extensions :
               /\ resource_filename' = [id |-> wb, ext |-> ext]
               /\ content' = content \cup {resource_filename'}
               /\ pc' = "downloaded"
               /\ error' = error
  /\ UNCHANGED <<call, history, run, env, file, prefilter, i, snowflake_connections,
                 query_tag_count, config, file_at_load>>

classify ==
  /\ pc = "downloaded"
  /\ \/ /\ ParserResults(resource_filename) # {}
        /\ Abort("parse")
        /\ UNCHANGED snowflake_connections
     \/ /\ ParserResults(resource_filename) # {}
        /\ snowflake_connections' \in
             {get_connections_for_dbclass(resource_filename, datasources, "snowflake") :
                datasources \in ParserResults(resource_filename)}
        /\ pc' = "classified"
        /\ error' = error
     \/ /\ ParserResults(resource_filename) = {}
        /\ snowflake_connections' =
             get_connections_for_dbclass(resource_filename, <<>>, "snowflake")
        /\ pc' = "classified"
        /\ error' = error
  /\ UNCHANGED <<call, history, run, env, disk, prefilter, i, resource_filename,
                 query_tag_count, config, events, file_at_load>>

\* the loop over snowflake_connections and the test of the count; the list
\* is dead once the loop has ended, and is cleared then
evaluate ==
  /\ pc = "classified"
  /\ \E result \in {count_without_query_tag(snowflake_connections, 0)} :
       \/ /\ result.raised # NoError
          /\ Abort(result.raised)
          /\ UNCHANGED <<query_tag_count, snowflake_connections>>
       \/ /\ result.raised = NoError
          /\ query_tag_count' = result.value
          /\ snowflake_connections' = <<>>
          /\ pc' = IF needs_tag(result.value) THEN "tagging" ELSE "cleanup"
          /\ error' = error
  /\ UNCHANGED <<call, history, run, env, disk, prefilter, i, resource_filename, config, events,
                 file_at_load>>

add_workbook_tag ==
  /\ pc = "tagging"
  /\ LET wb == wbs_with_sf_connections[i] IN
       /\ Log("update", wb)
       /\ \/ /\ Abort("update")
             /\ UNCHANGED catalog
          \/ /\ catalog' = [catalog EXCEPT ![wb].tags = @ \cup {TABLEAU_TAG}]
             /\ pc' = "cleanup"
             /\ error' = error
  /\ UNCHANGED <<call, history, run, clock, tzOffset, disk, prefilter, loop, config, file_at_load>>

\* a mutation of the end of the iteration: the file is left in the folder
remove_resource_skipped ==
  /\ pc = "cleanup"
  /\ i' = i + 1
  /\ resource_filename' = NoFile
  /\ snowflake_connections' = <<>>
  /\ query_tag_count' = 0
  /\ pc' = "loop"
  /\ UNCHANGED <<call, history, error, run, env, disk, prefilter, config, events,
                 file_at_load>>

\* os.remove and the end of the iteration; the locals of the iteration are
\* dead until the next iteration assigns them, and are cleared here
remove_resource ==
  /\ pc = "cleanup"
  /\ content' = content \ {resource_filename}
  /\ Log("remove", resource_filename.id)
  /\ i' = i + 1
  /\ resource_filename' = NoFile
  /\ snowflake_connections' = <<>>
  /\ query_tag_count' = 0
  /\ pc' = "loop"
  /\ UNCHANGED <<call, history, error, run, env, file, prefilter, config, file_at_load>>

\* a mutation of the run controller: the checkpoint update does not wait for
\* the loop to end
checkpoint_read_early ==
  /\ pc = "loop"
  /\ file.kind = "json"
  /\ config' = set_date_checkpoint(json_load(file), strftime(datetime_now))
  /\ pc' = "advance_open"
  /\ UNCHANGED <<call, history, error, run, env, disk, prefilter, loop, events, file_at_load>>

\* a mutation of the run controller: the checkpoint is updated only when
\* there was a workbook to download
checkpoint_read_if_candidates ==
  /\ pc = "loop"
  /\ exhausted(i, wbs_with_sf_connections)
  /\ wbs_with_sf_connections # <<>>
  /\ file.kind = "json"
  /\ config' = set_date_checkpoint(json_load(file), strftime(datetime_now))
  /\ pc' = "advance_open"
  /\ UNCHANGED <<call, history, error, run, env, disk, prefilter, loop, events, file_at_load>>

\* update_workbook_config_with_date_checkpoint, up to the new dict
checkpoint_read ==
  /\ pc = "loop"
  /\ exhausted(i, wbs_with_sf_connections)
  /\ file.kind = "json"
  /\ config' = set_date_checkpoint(json_load(file), strftime(datetime_now))
  /\ pc' = "advance_open"
  /\ UNCHANGED <<call, history, error, run, env, disk, prefilter, loop, events, file_at_load>>

\* open("workbook_config.json", "w") truncates the file
checkpoint_open ==
  /\ pc = "advance_open"
  /\ file' = Empty
  /\ Log("advance", 0)
  /\ pc' = "advance_dump"
  /\ UNCHANGED <<call, history, error, run, env, content, prefilter, loop, config, file_at_load>>

\* json.dump and the close of the file
checkpoint_dump ==
  /\ pc = "advance_dump"
  /\ file' = json_dump(config, 4)
  /\ pc' = "done"
  /\ UNCHANGED <<call, history, error, run, env, content, prefilter, loop, config, events,
                 file_at_load>>

(* ----------------------------- environment ----------------------------- *)
\* the values of the locals of main before it runs
Fresh ==
  /\ error' = NoError
  /\ req_opts' = NoOpts
  /\ workbooks_to_check' = <<>>
  /\ wb_index' = 1
  /\ wb_connections' = <<>>
  /\ wbs_with_sf_connections' = <<>>
  /\ i' = 1
  /\ resource_filename' = NoFile
  /\ snowflake_connections' = <<>>
  /\ query_tag_count' = 0
  /\ config' = NoConfig
  /\ events' = <<>>
  /\ file_at_load' = file

\* the process is killed: its memory is gone, the disk and the server stay
Kill ==
  /\ Running
  /\ pc' = "killed"
  /\ Fresh
  /\ UNCHANGED <<call, history, run, env, disk>>

\* the next invocation of main
StartRun ==
  /\ ~Running
  /\ run < MaxRuns
  /\ run' = run + 1
  /\ previous_completed' = (pc = "done")
  /\ pc' = "start"
  /\ Fresh
  /\ UNCHANGED <<call, modified, env, disk>>

\* Time and the modification dates of the catalog are read by the listing
\* request and by the checkpoint update only; the other steps of a run commute
\* with the environment, whose steps are taken right before one of these (what
\* happens between two runs is taken before the listing of the later one).
EnvStep ==
  \/ pc = "listing"
  \/ pc = "loop" /\ exhausted(i, wbs_with_sf_connections)

Tick ==
  /\ EnvStep
  /\ clock < MaxClock
  /\ clock' = clock + 1
  /\ UNCHANGED <<call, history, pc, error, run, tzOffset, catalog, disk, prefilter, loop,
                 config, events, file_at_load>>

\* the local clock of the runner is set to another utc offset (the end of
\* daylight saving time, a change of zone); the offset is read by the
\* checkpoint update only
ClockChange ==
  /\ pc = "loop"
  /\ exhausted(i, wbs_with_sf_connections)
  /\ \E offset \in Offsets :
       /\ tzOffset # offset
       /\ tzOffset' = offset
  /\ UNCHANGED <<call, history, pc, error, run, clock, catalog, disk, prefilter, loop,
                 config, events, file_at_load>>

\* a user publishes a new version of a workbook
ModifyWorkbook ==
  /\ EnvStep
  /\ \E w \in Workbooks :
       /\ catalog[w].updatedAt # clock \div TicksPerSec
       /\ catalog' = [catalog EXCEPT ![w].updatedAt = clock \div TicksPerSec]
       /\ modified' = modified \cup {w}
  /\ UNCHANGED <<call, previous_completed, pc, error, run, clock, tzOffset, disk, prefilter, loop,
                 config, events, file_at_load>>

Next ==
  \/ create_tableau_session
  \/ get_workbooks_from_config
  \/ list_workbooks
  \/ populate_connections
  \/ return_wbs_with_sf_connections
  \/ download_resource
  \/ classify
  \/ evaluate
  \/ add_workbook_tag
  \/ remove_resource
  \/ checkpoint_read
  \/ checkpoint_open
  \/ checkpoint_dump
  \/ Kill
  \/ Tick
  \/ ClockChange
  \/ ModifyWorkbook

\* one invocation of main
Spec == Init /\ [][Next]_vars

NextRuns ==
  \/ Next
  \/ StartRun

\* successive invocations of main, one at a time
SpecRuns == Init /\ [][NextRuns]_vars

(* -------------------- the compliance predicate alone ------------------- *)
lower_tag == <<"a", "l", "t", "e", "r", " ", "s", "e", "s", "s", "i", "o", "n", " ", "s", "e", "t", " ", "q", "u", "e", "r", "y", "_", "t", "a", "g", " ", "=", " ", "'", "x", "'">>
mixed_tag == <<"A", "l", "T", "e", "R", " ", "s", "E", "s", "S", "i", "O", "n", " ", "S", "e", "T", " ", "q", "U", "e", "R", "y", "_", "T", "a", "G", " ", "=", " ", "'", "x", "'">>
truncated_tag == <<"a", "l", "t", "e", "r", " ", "s", "e", "s", "s", "i", "o", "n", " ", "s", "e", "t", " ", "q", "u", "e", "r", "y", "_", "t", "a">>
late_tag == <<"x", " ", "a", "l", "t", "e", "r", " ", "s", "e", "s", "s", "i", "o", "n", " ", "s", "e", "t", " ", "q", "u", "e", "r", "y", "_", "t", "a", "g">>
wide_tag == <<"a", "l", "t", "e", "r", " ", " ", "s", "e", "s", "s", "i", "o", "n", " ", "s", "e", "t", " ", "q", "u", "e", "r", "y", "_", "t", "a", "g">>

Bodies ==
  {<<>>, select_1, query_tag_text, lower_tag, mixed_tag, truncated_tag,
   late_tag, wide_tag}

Pads == SeqsUpTo(Whitespace, MaxPad)

\* the strings the predicate is called with: a body in three spellings,
\* between two runs of whitespace
TestStrings ==
  {before \o spelled \o after :
     before \in Pads, after \in Pads,
     spelled \in UNION {{b, upper(b), lower(b)} : b \in Bodies}}

InitPredicate ==
  /\ pc = "predicate"
  /\ error = NoError
  /\ run = 1
  /\ clock = TicksPerSec
  /\ tzOffset = 0
  /\ catalog = [w \in Workbooks |-> [size |-> size_to_bytes(1), updatedAt |-> 0, tags |-> {}]]
  /\ file = Missing
  /\ content = {}
  /\ req_opts = NoOpts
  /\ workbooks_to_check = <<>>
  /\ wb_index = 1
  /\ wb_connections = <<>>
  /\ wbs_with_sf_connections = <<>>
  /\ i = 1
  /\ resource_filename = NoFile
  /\ snowflake_connections = <<>>
  /\ query_tag_count = 0
  /\ config = NoConfig
  /\ events = <<>>
  /\ file_at_load = file
  /\ init_sql \in {Str(t) : t \in TestStrings}
  /\ predicate_result = Return(FALSE)
  /\ call_datasources = <<>>
  /\ call_dbclass = "snowflake"
  /\ modified = {}
  /\ previous_completed = FALSE

call_init_sql_has_query_tag ==
  /\ pc = "predicate"
  /\ predicate_result' = init_sql_has_query_tag(init_sql)
  /\ pc' = "returned"
  /\ UNCHANGED <<init_sql, call_datasources, call_dbclass, history, error, run, env, disk,
                 prefilter, loop, config, events, file_at_load>>

NextPredicate == call_init_sql_has_query_tag

SpecPredicate == InitPredicate /\ [][NextPredicate]_vars

(* ------------------------ the classification alone -------------------- *)
\* the extensions of the file names the classification is called with
FileExtensions == {".twb", ".twbx", ".tds", ".tdsx", ".zip", ""}

Classes == {"snowflake", "postgres"}

\* the file name, what the parser yields for the file (for a file that is
\* not parsed: what it holds), and the target class
InitClassify ==
  /\ pc = "classify"
  /\ error = NoError
  /\ run = 1
  /\ clock = TicksPerSec
  /\ tzOffset = 0
  /\ catalog = [w \in Workbooks |-> [size |-> size_to_bytes(1), updatedAt |-> 0, tags |-> {}]]
  /\ file = Missing
  /\ content = {}
  /\ req_opts = NoOpts
  /\ workbooks_to_check = <<>>
  /\ wb_index = 1
  /\ wb_connections = <<>>
  /\ wbs_with_sf_connections = <<>>
  /\ i = 1
  /\ resource_filename \in {[id |-> 1, ext |-> ext] : ext \in FileExtensions}
  /\ snowflake_connections = <<>>
  /\ query_tag_count = 0
  /\ config = NoConfig
  /\ events = <<>>
  /\ file_at_load = file
  /\ init_sql = None
  /\ predicate_result = Return(FALSE)
  /\ call_datasources \in IF ParserResults(resource_filename) # {}
                          THEN ParserResults(resource_filename)
                          ELSE WorkbookPackages
  /\ call_dbclass \in Classes
  /\ modified = {}
  /\ previous_completed = FALSE

call_get_connections_for_dbclass ==
  /\ pc = "classify"
  /\ snowflake_connections' =
       get_connections_for_dbclass(resource_filename, call_datasources, call_dbclass)
  /\ pc' = "classify_returned"
  /\ UNCHANGED <<call, history, error, run, env, disk, prefilter, i, resource_filename,
                 query_tag_count, config, events, file_at_load>>

NextClassify == call_get_connections_for_dbclass

SpecClassify == InitClassify /\ [][NextClassify]_vars

(* ------------------------------ the claims ----------------------------- *)
Ops(op) == {n \in 1..Len(events) : events[n].op = op}

Happened(op, wb) == \E n \in 1..Len(events) : events[n] = Event(op, wb)

HappenedBefore(op, wb, m) == \E n \in 1..(m - 1) : events[n] = Event(op, wb)

\* C1: the checkpoint file is rewritten only after every candidate has been
\* pre-filtered and every workbook to download has been downloaded and
\* removed; the rewrite is the last operation of the run (no download, tag
\* update or removal follows it) and there is at most one per run.
C1_AdvanceLastAndOnce ==
  /\ file # file_at_load => Ops("advance") # {}
  /\ \A n \in Ops("advance") :
       /\ n = Len(events)
       /\ \A k \in 1..Len(workbooks_to_check) :
            HappenedBefore("populate_connections", workbooks_to_check[k], n)
       /\ \A k \in 1..Len(wbs_with_sf_connections) :
            /\ HappenedBefore("download", wbs_with_sf_connections[k], n)
            /\ HappenedBefore("remove", wbs_with_sf_connections[k], n)

C1_Witness ==
  /\ pc = "done"
  /\ Ops("advance") # {}
  /\ Len(wbs_with_sf_connections) = 2
  /\ Ops("update") # {}

\* C2: once a step after the load of the checkpoint has failed (listing,
\* populate_connections, download, parsing, evaluation or tag update), the
\* checkpoint file on disk is the file the run loaded.
UpstreamErrors ==
  {"list", "populate_connections", "download", "parse", "AttributeError", "update"}

C2_AbortKeepsCheckpoint == error \in UpstreamErrors => file = file_at_load

C2_Witness ==
  /\ pc = "aborted"
  /\ error = "download"
  /\ Ops("remove") # {}
  /\ file.kind = "json"

\* the connections the predicate returns False for
NonCompliantCount(connections) ==
  Cardinality({n \in 1..Len(connections) :
     LET r == init_sql_has_query_tag(connections[n].initial_sql)
     IN  r.raised = NoError /\ ~r.value})

\* C3: the evaluation of a workbook leads to the tag update iff at least one
\* of its snowflake connections fails the compliance predicate.
C3_TagIffNonCompliant ==
  [][evaluate =>
       (pc' = "tagging" <=> NonCompliantCount(snowflake_connections) > 0)]_vars

\* the connections without initial SQL: None or the empty string
NoSqlCount(connections) ==
  Cardinality({n \in 1..Len(connections) :
     connections[n].initial_sql \in {None, Str(<<>>)}})

\* C4: the evaluation of a workbook with connections without initial SQL
\* (None or empty) raises no error: the run goes on to the tag update and
\* these connections are in the count.
C4_NoSqlIsNonCompliant ==
  [][evaluate /\ NoSqlCount(snowflake_connections) > 0 =>
       /\ pc' = "tagging"
       /\ query_tag_count' >= NoSqlCount(snowflake_connections)]_vars

\* the number of whitespace characters the string begins with
LeadingWhitespace(s) ==
  CHOOSE k \in 0..Len(s) :
    /\ \A n \in 1..k : s[n] \in Whitespace
    /\ k = Len(s) \/ s[k + 1] \notin Whitespace

\* after its leading whitespace the string spells the literal, in any case
SpellsQueryTag(s) ==
  LET k == LeadingWhitespace(s) IN
    /\ Len(s) - k >= Len(query_tag_text)
    /\ \A n \in 1..Len(query_tag_text) : upper_char(s[k + n]) = query_tag_text[n]

\* C5: for a str the predicate raises nothing and returns True iff the text
\* spells ALTER SESSION SET QUERY_TAG after its leading whitespace, in any
\* letter case; the result is the same for the text in lower case, in upper
\* case and between more whitespace, and it is False for SELECT 1.
C5_PredicateIsPrefixTest ==
  pc = "returned" =>
    /\ predicate_result.raised = NoError
    /\ predicate_result.value = SpellsQueryTag(init_sql.text)
    /\ predicate_result = init_sql_has_query_tag(Str(lower(init_sql.text)))
    /\ predicate_result = init_sql_has_query_tag(Str(upper(init_sql.text)))
    /\ predicate_result = init_sql_has_query_tag(Str(<<"\t", " ">> \o init_sql.text \o <<" ", "\n">>))
    /\ init_sql.text = select_1 => ~predicate_result.value

C5_Witness ==
  /\ pc = "returned"
  /\ predicate_result.value
  /\ Len(init_sql.text) > Len(lower_tag)
  /\ init_sql.text[1] \in Whitespace
  /\ init_sql.text[Len(init_sql.text)] \in Whitespace
  /\ lower(init_sql.text) = init_sql.text

\* C6: while the checkpoint is being updated, and after, the file on disk is
\* the complete file the run loaded or the complete new file.
C6_CheckpointFileComplete ==
  pc \in {"advance_open", "advance_dump", "done"} =>
    file = file_at_load \/ file = json_dump(config, 4)

\* C7: a run ended by a missing or malformed checkpoint file has made no call
\* to the catalog, the sign-in included.
C7_NoCatalogCallOnBadConfig ==
  error \in {"FileNotFoundError", "JSONDecodeError"} => events = <<>>

\* C8: when a run has ended, by completion or by an error, no file this run
\* downloaded is left in the content folder.
C8_NoArtifactLeft ==
  pc \in {"done", "aborted"} => \A f \in content : ~Happened("download", f.id)

\* C9: a run that completes leaves a date_checkpoint that is not smaller than
\* the one it loaded.
C9_SinceNonDecreasing ==
  pc = "done" =>
    json_load(file).date_checkpoint >= json_load(file_at_load).date_checkpoint

\* C10: a completed checkpoint update leaves a complete file in which
\* content_size and the other keys have the values they were loaded with.
C10_AdvanceKeepsOtherFields ==
  pc = "done" =>
    /\ file.kind = "json"
    /\ json_load(file).content_size = json_load(file_at_load).content_size
    /\ json_load(file).note = json_load(file_at_load).note

C10_Witness ==
  /\ pc = "done"
  /\ json_load(file).date_checkpoint # json_load(file_at_load).date_checkpoint
  /\ json_load(file).content_size > 0
  /\ json_load(file).note = "owner"
  /\ file.indent # file_at_load.indent

\* the current UTC time, truncated to the second
utc_second == clock \div TicksPerSec

\* C11: the date_checkpoint the checkpoint update computes is the current UTC
\* time truncated to the second, whatever the utc offset of the local clock.
C11_SinceIsUtcNow ==
  [][checkpoint_read => config'.date_checkpoint = utc_second]_vars

\* C12: when the previous invocation ran to its end and no workbook has been
\* modified since it issued its listing request, the listing of this
\* invocation yields no candidate.
C12_SecondRunNoCandidates ==
  [][list_workbooks /\ previous_completed /\ modified = {} /\ pc' # "aborted"
       => workbooks_to_check' = <<>>]_vars

\* every connection of the list passes the compliance predicate
AllCompliant(connections) ==
  \A n \in 1..Len(connections) :
    init_sql_has_query_tag(connections[n].initial_sql) = Return(TRUE)

\* a bound of the number of steps main can still take
steps_left ==
  LET after(index) == 5 * (Len(wbs_with_sf_connections) - index) + 3 IN
    CASE pc = "start" -> 6 * NumWorkbooks + 8
      [] pc = "signed_in" -> 6 * NumWorkbooks + 7
      [] pc = "listing" -> 6 * NumWorkbooks + 6
      [] pc = "filtering" ->
           6 * (Len(workbooks_to_check) - wb_index + 1) + after(0) + 1
      [] pc = "filtered" -> after(0) + 1
      [] pc = "loop" -> after(i - 1)
      [] pc = "downloaded" -> after(i) + 4
      [] pc = "classified" -> after(i) + 3
      [] pc = "tagging" -> after(i) + 2
      [] pc = "cleanup" -> after(i) + 1
      [] pc = "advance_open" -> 2
      [] pc = "advance_dump" -> 1
      [] OTHER -> 0

\* main has a next step: the evaluation has no guard but its position, the
\* other steps have
has_next_step ==
  \/ pc = "classified"
  \/ ENABLED \/ create_tableau_session
             \/ get_workbooks_from_config
             \/ list_workbooks
             \/ populate_connections
             \/ return_wbs_with_sf_connections
             \/ download_resource
             \/ classify
             \/ add_workbook_tag
             \/ remove_resource
             \/ checkpoint_read
             \/ checkpoint_open
             \/ checkpoint_dump

\* the position of main: the statement and the indices of its two loops
position == <<pc, wb_index, i>>

\* C13: an invocation that is not killed and meets no error runs to its end:
\* while it runs main has a next step, and each step that moves main brings
\* the end nearer.  An invocation that completes has rewritten the checkpoint file
\* exactly once, with the time of the update; with no candidate it has made
\* no populate_connections, download or tag update call, and the evaluation
\* of a workbook whose connections all pass the predicate goes to the
\* removal with no tag update for the workbook.
C13_CompletesWithOneAdvance ==
  /\ [](Running => steps_left > 0 /\ has_next_step)
  /\ [][position' # position => steps_left' < steps_left /\ steps_left' >= 0]_vars
  /\ [](pc = "done" =>
          /\ Cardinality(Ops("advance")) = 1
          /\ file = json_dump(config, 4)
          /\ json_load(file).date_checkpoint = strftime(datetime_now)
          /\ workbooks_to_check = <<>> =>
               Ops("populate_connections") \cup Ops("download") \cup Ops("update") = {})
  /\ [](pc = "cleanup" /\ query_tag_count = 0 =>
          ~Happened("update", resource_filename.id))
  /\ [][evaluate /\ AllCompliant(snowflake_connections) =>
          pc' = "cleanup" /\ query_tag_count' = 0]_vars

\* a run over two workbooks, the first tagged, the second compliant, that
\* has advanced the checkpoint
C13_Witness ==
  /\ pc = "done"
  /\ Len(wbs_with_sf_connections) = 2
  /\ Happened("update", wbs_with_sf_connections[1])
  /\ ~Happened("update", wbs_with_sf_connections[2])
  /\ Happened("remove", wbs_with_sf_connections[2])
  /\ file.kind = "json"
  /\ file.indent = 4

\* a run with no candidate that has advanced the checkpoint
C13_WitnessEmpty ==
  /\ pc = "done"
  /\ workbooks_to_check = <<>>
  /\ file # file_at_load

\* a downloaded file that is neither a workbook nor a datasource
Unsupported(filename) ==
  /\ filename # NoFile
  /\ filename.ext \notin {".twb", ".twbx", ".tds", ".tdsx"}

\* C14: for a downloaded file whose extension is none of .twb, .twbx, .tds,
\* .tdsx, the classification raises nothing and returns the empty list, the
\* evaluation goes to the removal without a tag update, and the removal
\* deletes the file and hands over to the next iteration of the loop, no
\* tag update having been made for the workbook.
C14_UnsupportedIsSkipped ==
  /\ [](Unsupported(resource_filename) =>
          /\ pc \in {"downloaded", "classified", "cleanup"}
          /\ error = NoError
          /\ pc = "classified" => snowflake_connections = <<>>)
  /\ [][Unsupported(resource_filename) =>
          /\ classify => pc' = "classified" /\ snowflake_connections' = <<>>
          /\ evaluate => pc' = "cleanup" /\ query_tag_count' = 0
          /\ remove_resource =>
               /\ pc' = "loop"
               /\ i' = i + 1
               /\ resource_filename \notin content'
               /\ ~Happened("update", resource_filename.id)]_vars

\* the second workbook of the loop came as a file of no supported kind,
\* after a first one that was tagged, and is about to be removed
C14_Witness ==
  /\ pc = "cleanup"
  /\ Unsupported(resource_filename)
  /\ i = 2
  /\ Happened("update", wbs_with_sf_connections[1])
  /\ resource_filename \in content

\* all the connections of the datasources, in the order of the package
RECURSIVE Flatten(_)
Flatten(package) ==
  IF package = <<>> THEN <<>> ELSE Head(package) \o Flatten(Tail(package))

\* C16: for a workbook or datasource file the classification returns the
\* connections of all the datasources of the package, flattened in order,
\* whose dbclass is the target class, in that order; for any file the result
\* is a sequence (empty when nothing matches), of connections of the target
\* class only.
C16_ClassificationIsOrderedFilter ==
  pc = "classify_returned" =>
    /\ snowflake_connections \in Seq(FileConnections)
    /\ \A n \in 1..Len(snowflake_connections) :
         snowflake_connections[n].dbclass = call_dbclass
    /\ ~Unsupported(resource_filename) =>
         snowflake_connections =
           SelectSeq(Flatten(call_datasources), LAMBDA c : c.dbclass = call_dbclass)
    /\ (\A n \in 1..Len(Flatten(call_datasources)) :
          Flatten(call_datasources)[n].dbclass # call_dbclass)
         => snowflake_connections = <<>>

\* two datasources with one connection of the target class each, of
\* different initial SQL
C16_Witness ==
  /\ pc = "classify_returned"
  /\ resource_filename.ext = ".twbx"
  /\ Len(call_datasources) = 2
  /\ Len(call_datasources[1]) = 1
  /\ Len(call_datasources[2]) = 1
  /\ Len(snowflake_connections) = 2
  /\ snowflake_connections[1] # snowflake_connections[2]

\* the positions in the download list of the workbooks after the current one
Later == (i + 1)..Len(wbs_with_sf_connections)

\* C15: once a download has failed the run is over and the failed download
\* is its last operation: it left no file, no later workbook of the list
\* has been downloaded, tagged or removed, and every workbook the run had
\* tagged before still carries the tag.
C15_DownloadFailureStopsRun ==
  error = "download" =>
    /\ pc = "aborted"
    /\ events[Len(events)] = Event("download", wbs_with_sf_connections[i])
    /\ \A f \in content : f.id # wbs_with_sf_connections[i]
    /\ \A k \in Later, op \in {"download", "update", "remove"} :
         ~Happened(op, wbs_with_sf_connections[k])
    /\ \A w \in Workbooks :
         Happened("update", w) => TABLEAU_TAG \in catalog[w].tags

\* the download of the first workbook failed while another one was waiting
\* in the list
C15_Witness ==
  /\ error = "download"
  /\ i = 1
  /\ Later # {}
  /\ file.kind = "json"

\* C17: the folder holds at most one file, the file of the workbook of the
\* current iteration; between two downloads of the run the file of the first
\* is removed; and every tag update and every removal concerns the workbook
\* of the latest download.
C17_OneWorkbookAtATime ==
  /\ Cardinality(content) <= 1
  /\ \A f \in content :
       \/ pc = "killed"
       \/ /\ pc \in {"downloaded", "classified", "tagging", "cleanup", "aborted"}
          /\ f = resource_filename
          /\ f.id = wbs_with_sf_connections[i]
  /\ \A m \in Ops("download"), n \in Ops("download") :
       m < n => \E r \in (m + 1)..(n - 1) : events[r] = Event("remove", events[m].wb)
  /\ \A u \in Ops("update") \cup Ops("remove") :
       \E d \in Ops("download") :
         /\ d < u
         /\ events[d].wb = events[u].wb
         /\ \A n \in Ops("download") : n <= d \/ n > u

\* the file of the second workbook is in the folder, the first workbook
\* having been downloaded, tagged and removed
C17_Witness ==
  /\ pc = "downloaded"
  /\ i = 2
  /\ Happened("update", wbs_with_sf_connections[1])
  /\ Happened("remove", wbs_with_sf_connections[1])
  /\ content = {resource_filename}

Range(seq) == {seq[n] : n \in 1..Len(seq)}

\* C18: the pre-filter puts a workbook in the download list iff the
\* connections the catalog returned for it include one of connection_type
\* snowflake, and only workbooks of that list are downloaded; the evaluation
\* leads to the tag update only when the downloaded file holds a connection
\* of dbclass snowflake for which the predicate returns False, and the
\* records it reads are the records of the file.
C18_TwoFiltersGate ==
  /\ [][populate_connections /\ pc' # "aborted" =>
          IF "snowflake" \in Range(wb_connections')
          THEN wbs_with_sf_connections' =
                 Append(wbs_with_sf_connections, workbooks_to_check[wb_index])
          ELSE wbs_with_sf_connections' = wbs_with_sf_connections]_vars
  /\ [](\A n \in Ops("download") \cup Ops("update") :
          /\ events[n].wb \in Range(wbs_with_sf_connections)
          /\ HappenedBefore("populate_connections", events[n].wb, n))
  /\ [](\A n \in Ops("update") : HappenedBefore("download", events[n].wb, n))
  /\ [][evaluate /\ pc' = "tagging" =>
          /\ Range(snowflake_connections) \subseteq FileConnections
          /\ \E c \in Range(snowflake_connections) :
               /\ c.dbclass = "snowflake"
               /\ init_sql_has_query_tag(c.initial_sql) = Return(FALSE)]_vars

\* a workbook that passed both filters is about to be tagged, in a run
\* whose pre-filter kept another candidate out of the download list
C18_Witness ==
  /\ pc = "tagging"
  /\ Len(workbooks_to_check) = 2
  /\ Len(wbs_with_sf_connections) = 1
  /\ Happened("download", wbs_with_sf_connections[1])

\* C20: every populate_connections call of the run precedes every download,
\* no workbook is twice in the download list, and a run ended by a failure
\* of populate_connections has made no download and no tag update.
C20_PrefilterBeforeDownloads ==
  /\ \A m \in Ops("populate_connections"), n \in Ops("download") : m < n
  /\ \A m \in Ops("download") :
       \A k \in 1..Len(workbooks_to_check) :
         HappenedBefore("populate_connections", workbooks_to_check[k], m)
  /\ \A k \in 1..Len(wbs_with_sf_connections), l \in 1..Len(wbs_with_sf_connections) :
       wbs_with_sf_connections[k] = wbs_with_sf_connections[l] => k = l
  /\ error = "populate_connections" =>
       /\ pc = "aborted"
       /\ Ops("download") \cup Ops("update") \cup Ops("remove") = {}
       /\ content = {}

\* the first download of a run whose pre-filter has gone through two
\* candidates and kept both
C20_Witness ==
  /\ pc = "downloaded"
  /\ Cardinality(Ops("download")) = 1
  /\ Cardinality(Ops("populate_connections")) = 2
  /\ Len(wbs_with_sf_connections) = 2

\* C19: when the previous invocation ran to its end, the listing of this
\* invocation yields every workbook within the size limit that was modified
\* after the previous invocation issued its listing request.
C19_NoModificationLost ==
  [][list_workbooks /\ previous_completed /\ pc' # "aborted" =>
       \A w \in modified :
         catalog[w].size <= req_opts.size => w \in Range(workbooks_to_check')]_vars

====
